---- MODULE Spec2Model ----
(***************************************************************************)
(* Room state engine of conduit-oidc: the in-memory state store            *)
(* (src/src/state.rs), the room handler built on it (src/src/room.rs) and  *)
(* the state resolver (src/src/state.rs).                                  *)
(*                                                                         *)
(* Rust values are written as follows.  Option<T>: None is <<>>, Some(x)   *)
(* is <<x>>.  HashMap<K,V>: a function whose DOMAIN is the set of keys     *)
(* present.  Result<T,E>: a record with an err field ("ok" or the error    *)
(* variant) next to the value.  A handler is an async fn: it runs          *)
(* atomically up to each .await on the store, so every store call is one   *)
(* step of the task that runs the handler.                                 *)
(***************************************************************************)
EXTENDS Integers, Sequences, FiniteSets, TLC

VARIABLES rooms, tasks, calls, rstate, input, resolved, last

vars == <<rooms, tasks, calls, rstate, input, resolved, last>>

handlerVars == <<rooms, tasks, calls>>

pureVars == <<rstate, input, resolved, last>>

(***************************************************************************)
(* Bounds of the model                                                     *)
(***************************************************************************)
MaxCalls == 4

MaxEvents == 3

MaxReadCalls == 3

Tasks == {"t1", "t2"}

Users == {"@alice:example.org", "@bob:example.org"}

RandomIds == {"!u1:matrix.local"}

Aliases == {"general"}

None == <<>>

Some(x) == <<x>>

(***************************************************************************)
(* events.rs                                                               *)
(***************************************************************************)
\* MatrixEvent::new.  event_id is a fresh uuid and origin_server_ts the wall
\* clock; the caller passes the values the uuid generator and the clock gave.
MatrixEvent_new(event_id, ts, event_type, content, sender, room_id) ==
  [event_id |-> event_id, event_type |-> event_type, content |-> content,
   sender |-> sender, room_id |-> room_id, origin_server_ts |-> ts,
   state_key |-> None]

with_state_key(event, state_key) == [event EXCEPT !.state_key = Some(state_key)]

is_state_event(event) == event.state_key # None

validate(event) ==
  IF event.sender = "" THEN "EmptySender"
  ELSE IF event.room_id = "" THEN "EmptyRoomId"
  ELSE IF event.event_id = "" THEN "EmptyEventId"
  ELSE "ok"

\* EventType::Custom(s) is a variant of its own: Custom("m.room.name") and
\* EventType::RoomName are different keys of state_events.
Custom(s) == "Custom(" \o s \o ")"

RoomMemberContent(membership) == [kind |-> "RoomMember", membership |-> membership]

RoomNameContent(name) == [kind |-> "RoomName", name |-> name]

RoomTopicContent(topic) == [kind |-> "RoomTopic", topic |-> topic]

RawContent(value) == [kind |-> "Raw", value |-> value]

\* The handlers never read the id or the timestamp of an event they build:
\* every event built by a handler carries these two tokens for "some fresh
\* uuid" and "the time of the call".
HandlerEventId == "$uuid"

HandlerNow == 0

(***************************************************************************)
(* state.rs: RoomState                                                     *)
(***************************************************************************)
CreatorLevel == 100

\* RoomState::new without the insertion of the creator into power_levels.users.
RoomState_new_without_admin(room_id, creator, room_version) ==
  [room_id |-> room_id,
   room_version |-> room_version,
   state_events |-> <<>>,
   members |-> (creator :> "join"),
   power_levels |-> [users |-> Some(<<>>),
                     users_default |-> Some(0),
                     events |-> Some(<<>>),
                     events_default |-> Some(0),
                     state_default |-> Some(50),
                     ban |-> Some(50),
                     kick |-> Some(50),
                     redact |-> Some(50),
                     invite |-> Some(50)],
   creator |-> creator,
   join_rules |-> Some("invite"),
   name |-> None,
   topic |-> None,
   avatar_url |-> None,
   history_visibility |-> Some("shared")]

\* RoomState::new with the invite level left at 0.
RoomState_new_invite_zero(room_id, creator, room_version) ==
  [RoomState_new_without_admin(room_id, creator, room_version) EXCEPT
     !.power_levels.users = Some(creator :> CreatorLevel),
     !.power_levels.invite = Some(0)]

RoomState_new(room_id, creator, room_version) ==
  [room_id |-> room_id,
   room_version |-> room_version,
   state_events |-> <<>>,
   members |-> (creator :> "join"),
   power_levels |-> [users |-> Some(creator :> CreatorLevel),
                     users_default |-> Some(0),
                     events |-> Some(<<>>),
                     events_default |-> Some(0),
                     state_default |-> Some(50),
                     ban |-> Some(50),
                     kick |-> Some(50),
                     redact |-> Some(50),
                     invite |-> Some(50)],
   creator |-> creator,
   join_rules |-> Some("invite"),
   name |-> None,
   topic |-> None,
   avatar_url |-> None,
   history_visibility |-> Some("shared")]

get_user_power_level(state, user_id) ==
  IF state.power_levels.users # None
     /\ user_id \in DOMAIN state.power_levels.users[1]
  THEN state.power_levels.users[1][user_id]
  ELSE 0

user_has_power_level(state, user_id, required_level) ==
  get_user_power_level(state, user_id) >= required_level

\* is_member that takes every user for a member.
is_member_of_any_room(state, user_id) == TRUE

is_member(state, user_id) ==
  user_id \in DOMAIN state.members /\ state.members[user_id] = "join"

is_admin(state, user_id) == user_has_power_level(state, user_id, 100)

\* HashMap::insert and HashMap::remove
MapInsert(m, k, v) == (k :> v) @@ m

MapRemove(m, k) == [x \in DOMAIN m \ {k} |-> m[x]]

add_state_event(state, event) ==
  IF event.state_key = None
  THEN [err |-> "InvalidEvent", state |-> state]
  ELSE IF validate(event) # "ok"
  THEN [err |-> "InvalidEvent", state |-> state]
  ELSE IF ~user_has_power_level(state, event.sender, 50)
  THEN [err |-> "InsufficientPermissions", state |-> state]
  ELSE [err |-> "ok",
        state |-> [state EXCEPT !.state_events =
                     MapInsert(@, <<event.event_type, event.state_key[1]>>, event)]]

\* process_member_event with Leave keeping the entry, marked "leave".
process_member_event_leave_kept(state, event) ==
  IF event.content.kind = "RoomMember"
  THEN LET user_id == event.sender
       IN CASE event.content.membership = "join" ->
                 [state EXCEPT !.members = MapInsert(@, user_id, "join")]
            [] event.content.membership = "leave" ->
                 [state EXCEPT !.members = MapInsert(@, user_id, "leave")]
            [] event.content.membership = "invite" -> state
            [] event.content.membership = "ban" ->
                 [state EXCEPT !.members = MapRemove(@, user_id)]
            [] event.content.membership = "knock" -> state
  ELSE state

\* process_member_event with Leave keeping the entry and Join written with
\* entry().or_insert, which leaves an existing entry as it is.
process_member_event_join_once(state, event) ==
  IF event.content.kind = "RoomMember"
     /\ event.content.membership = "join"
     /\ event.sender \in DOMAIN state.members
  THEN state
  ELSE process_member_event_leave_kept(state, event)

process_member_event(state, event) ==
  IF event.content.kind = "RoomMember"
  THEN LET user_id == event.sender
       IN CASE event.content.membership = "join" ->
                 [state EXCEPT !.members = MapInsert(@, user_id, "join")]
            [] event.content.membership = "leave" ->
                 [state EXCEPT !.members = MapRemove(@, user_id)]
            [] event.content.membership = "invite" -> state
            [] event.content.membership = "ban" ->
                 [state EXCEPT !.members = MapRemove(@, user_id)]
            [] event.content.membership = "knock" -> state
  ELSE state

get_summary(state) ==
  [room_id |-> state.room_id,
   name |-> state.name,
   topic |-> state.topic,
   member_count |-> Cardinality(DOMAIN state.members),
   join_rules |-> state.join_rules,
   history_visibility |-> state.history_visibility]

(***************************************************************************)
(* state.rs: InMemoryStateStore, each operation under the store's RwLock   *)
(***************************************************************************)
\* get_room that answers for an absent id with a fresh room state.
store_get_room_or_default(rs, room_id) ==
  IF room_id \in DOMAIN rs THEN Some(rs[room_id])
  ELSE Some(RoomState_new(room_id, "", ""))

store_get_room(rs, room_id) ==
  IF room_id \in DOMAIN rs THEN Some(rs[room_id]) ELSE None

store_create_room(rs, room_state) ==
  [err |-> "ok", rooms |-> MapInsert(rs, room_state.room_id, room_state)]

\* update_room written as an insert, as create_room is.
store_update_room_upsert(rs, room_state) ==
  [err |-> "ok", rooms |-> MapInsert(rs, room_state.room_id, room_state)]

\* update_room writing the entry before it looks whether the room is stored.
store_update_room_insert_first(rs, room_state) ==
  [err |-> IF room_state.room_id \in DOMAIN rs THEN "ok" ELSE "RoomNotFound",
   rooms |-> MapInsert(rs, room_state.room_id, room_state)]

store_update_room(rs, room_state) ==
  IF room_state.room_id \in DOMAIN rs
  THEN [err |-> "ok", rooms |-> [rs EXCEPT ![room_state.room_id] = room_state]]
  ELSE [err |-> "RoomNotFound", rooms |-> rs]

\* delete_room that drops the result of HashMap::remove.
store_delete_room_silent(rs, room_id) ==
  [err |-> "ok", rooms |-> MapRemove(rs, room_id)]

\* delete_room clearing the whole map.
store_delete_room_clear(rs, room_id) ==
  IF room_id \in DOMAIN rs
  THEN [err |-> "ok", rooms |-> <<>>]
  ELSE [err |-> "RoomNotFound", rooms |-> rs]

store_delete_room(rs, room_id) ==
  IF room_id \in DOMAIN rs
  THEN [err |-> "ok", rooms |-> MapRemove(rs, room_id)]
  ELSE [err |-> "RoomNotFound", rooms |-> rs]

\* room_exists that asks whether any room is stored.
store_room_exists_any(rs, room_id) == rs # <<>>

store_room_exists(rs, room_id) == room_id \in DOMAIN rs

\* list_rooms (state.rs 272-275): the keys of the map, each once, in the
\* order the HashMap iterates them, which is any order.
store_list_rooms(rs) ==
  {ids \in [1..Cardinality(DOMAIN rs) -> DOMAIN rs] :
     \A i \in DOMAIN ids, j \in DOMAIN ids : i # j => ids[i] # ids[j]}

(***************************************************************************)
(* state.rs: StateResolver                                                 *)
(***************************************************************************)
\* One step of the stable sort: e goes behind every element whose key is
\* smaller than or equal to its own.
\* The insertion of an unstable sort: before the elements of equal key.
insert_by_key_before_equal(sorted, e) ==
  LET k == Cardinality({i \in 1..Len(sorted) :
                          sorted[i].origin_server_ts < e.origin_server_ts})
  IN SubSeq(sorted, 1, k) \o <<e>> \o SubSeq(sorted, k + 1, Len(sorted))

insert_by_key(sorted, e) ==
  LET k == Cardinality({i \in 1..Len(sorted) :
                          sorted[i].origin_server_ts <= e.origin_server_ts})
  IN SubSeq(sorted, 1, k) \o <<e>> \o SubSeq(sorted, k + 1, Len(sorted))

RECURSIVE sort_by_key(_)
\* slice::sort_by_key(|e| e.origin_server_ts): a stable sort.
sort_by_key(s) ==
  IF s = <<>> THEN <<>>
  ELSE insert_by_key(sort_by_key(SubSeq(s, 1, Len(s) - 1)), s[Len(s)])

\* resolve_state_conflicts that returns the candidates as they came.
resolve_state_conflicts_unsorted(auth_events, state_events) ==
  [err |-> "ok", events |-> state_events]

resolve_state_conflicts(auth_events, state_events) ==
  [err |-> "ok", events |-> sort_by_key(state_events)]

validate_event_auth(event, auth_events, room_state) ==
  IF ~is_member(room_state, event.sender)
  THEN "InsufficientPermissions"
  ELSE IF is_state_event(event)
          /\ ~user_has_power_level(room_state, event.sender,
                IF room_state.power_levels.state_default = None THEN 50
                ELSE room_state.power_levels.state_default[1])
  THEN "InsufficientPermissions"
  ELSE "ok"

(***************************************************************************)
(* room.rs: RoomHandler                                                    *)
(***************************************************************************)
AliasRoomId(alias_name) == "#" \o alias_name \o ":matrix.local"

RoomIds == RandomIds \cup {AliasRoomId(a) : a \in Aliases}

\* The creation configurations the callers pass (RoomConfig).
Configs ==
  { [name |-> Some("General"), topic |-> Some("Chat"),
     room_alias_name |-> Some("general"), room_version |-> Some("9"),
     initial_state |-> <<>>, preset |-> Some("public_chat")],
    [name |-> None, topic |-> None,
     room_alias_name |-> None, room_version |-> None,
     initial_state |-> <<>>, preset |-> None],
    [name |-> Some("Ops"), topic |-> None,
     room_alias_name |-> Some("general"), room_version |-> None,
     initial_state |-> <<[event_type |-> "custom.tag", state_key |-> "",
                          content |-> "v"]>>,
     preset |-> Some("private_chat")] }

\* The ids generate_room_id can return: the alias id, or a fresh uuid, which
\* is neither stored nor in the hands of a running request.
generate_room_id(alias) ==
  IF alias # None
  THEN {AliasRoomId(alias[1])}
  ELSE {id \in RandomIds :
          /\ id \notin DOMAIN rooms
          /\ \A t \in Tasks : tasks[t].pc = "idle" \/ tasks[t].room # id}

RECURSIVE apply_initial_state(_, _, _)
\* room.rs 197-206: the loop over config.initial_state; the first failing
\* add_state_event ends create_room.
apply_initial_state(acc, creator, initial_state) ==
  IF acc.err # "ok" \/ initial_state = <<>>
  THEN acc
  ELSE LET sc == Head(initial_state)
           event == with_state_key(
                      MatrixEvent_new(HandlerEventId, HandlerNow,
                                      Custom(sc.event_type),
                                      RawContent(sc.content),
                                      creator, acc.state.room_id),
                      sc.state_key)
       IN apply_initial_state(add_state_event(acc.state, event), creator,
                              Tail(initial_state))

\* The match on the preset with trusted_private_chat in the public arm.
preset_join_rule_trusted_public(preset) ==
  IF preset \in {Some("public_chat"), Some("trusted_private_chat")}
  THEN "public" ELSE "invite"

\* room.rs 230-234: the match on config.preset.
preset_join_rule(preset) ==
  IF preset = Some("public_chat") THEN "public" ELSE "invite"

\* room.rs 188-238: the room state create_room builds before it stores it.
build_room_state(room_id, creator, config) ==
  LET room_version == IF config.room_version = None THEN "9"
                      ELSE config.room_version[1]
      s0 == [err |-> "ok", state |-> RoomState_new(room_id, creator, room_version)]
      s1 == apply_initial_state(s0, creator, config.initial_state)
      s2 == IF s1.err = "ok" /\ config.name # None
            THEN add_state_event(s1.state,
                   with_state_key(
                     MatrixEvent_new(HandlerEventId, HandlerNow, "m.room.name",
                                     RoomNameContent(config.name[1]),
                                     creator, room_id), ""))
            ELSE s1
      s3 == IF s2.err = "ok" /\ config.topic # None
            THEN add_state_event(s2.state,
                   with_state_key(
                     MatrixEvent_new(HandlerEventId, HandlerNow, "m.room.topic",
                                     RoomTopicContent(config.topic[1]),
                                     creator, room_id), ""))
            ELSE s2
  IN IF s3.err = "ok"
     THEN [err |-> "ok",
           state |-> [s3.state EXCEPT
                        !.join_rules = Some(preset_join_rule(config.preset)),
                        !.history_visibility = Some("shared")]]
     ELSE s3

\* The match on the join rule with the "invite" arm as open as the "public" one.
check_join_rules_invite_open(room_state, user_id) ==
  LET join_rule == IF room_state.join_rules = None THEN "invite"
                   ELSE room_state.join_rules[1]
  IN IF join_rule \in {"public", "invite"} THEN "ok"
     ELSE "InsufficientPermissions"

\* room.rs 261-279: the match on the join rule in join_room.
check_join_rules(room_state, user_id) ==
  LET join_rule == IF room_state.join_rules = None THEN "invite"
                   ELSE room_state.join_rules[1]
  IN IF join_rule = "public" THEN "ok"
     ELSE IF join_rule = "invite"
     THEN IF is_admin(room_state, user_id) THEN "ok"
          ELSE "InsufficientPermissions"
     ELSE "InsufficientPermissions"

member_event(user_id, room_id, membership) ==
  with_state_key(
    MatrixEvent_new(HandlerEventId, HandlerNow, "m.room.member",
                    RoomMemberContent(membership), user_id, room_id),
    user_id)

\* RoomError::StateError(#[from] StateError), room.rs 39-40: what the ? operator
\* makes of an error of the store or of the room state.
StateErrorOf(err) == "StateError(" \o err \o ")"

\* The StateError variants a handler can pass on (state.rs 13-24).
StateErrorResults ==
  {StateErrorOf(e) : e \in {"RoomNotFound", "InsufficientPermissions",
                            "InvalidEvent"}}

\* RoomError::status_code (room.rs 47-58) on the errors the handlers return.
status_code(err) ==
  CASE err = "RoomNotFound" -> 404
    [] err = "UserNotInRoom" -> 403
    [] err = "InsufficientPermissions" -> 403
    [] err = "RoomAlreadyExists" -> 409
    [] err = "InvalidRoomConfig" -> 400
    [] err = "MessageTooLarge" -> 413
    [] err \in StateErrorResults -> 500

\* A task between two requests, and the record of a request that returned.
NoResp == None

Returned(op, user, room, snap, result, resp) ==
  [pc |-> "idle", op |-> op, user |-> user, room |-> room, snap |-> snap,
   result |-> result, resp |-> resp]

Running(pc, op, user, room, snap) ==
  [pc |-> pc, op |-> op, user |-> user, room |-> room, snap |-> snap,
   result |-> "pending", resp |-> NoResp]

IdleTask == Returned("none", "", "", None, "none", NoResp)

CanStart(t) == tasks[t].pc = "idle" /\ calls < MaxCalls

\* create_room up to the await on room_exists (room.rs 181-186), with the
\* local construction of the room state (188-238).
create_room_begin(t, creator, config) ==
  /\ CanStart(t)
  /\ \E room_id \in generate_room_id(config.room_alias_name) :
       LET built == build_room_state(room_id, creator, config)
       IN tasks' = [tasks EXCEPT ![t] =
            IF store_room_exists(rooms, room_id)
            THEN Returned("create_room", creator, room_id, None,
                          "RoomAlreadyExists", NoResp)
            ELSE IF built.err # "ok"
            THEN Returned("create_room", creator, room_id, None,
                          StateErrorOf(built.err), NoResp)
            ELSE Running("create_store", "create_room", creator, room_id,
                         Some(built.state))]
  /\ calls' = calls + 1
  /\ UNCHANGED <<rooms, pureVars>>

\* create_room from the await on state_store.create_room (room.rs 241-243).
create_room_store(t) ==
  /\ tasks[t].pc = "create_store"
  /\ LET r == store_create_room(rooms, tasks[t].snap[1])
     IN /\ rooms' = r.rooms
        /\ tasks' = [tasks EXCEPT ![t] =
             Returned(@.op, @.user, @.room, @.snap, r.err, Some(@.room))]
  /\ UNCHANGED <<calls, pureVars>>

\* join_room up to the await on update_room (room.rs 252-296).
join_room_get(t, user_id, room_id) ==
  /\ CanStart(t)
  /\ LET got == store_get_room(rooms, room_id)
     IN tasks' = [tasks EXCEPT ![t] =
          IF got = None
          THEN Returned("join_room", user_id, room_id, None, "RoomNotFound", NoResp)
          ELSE IF check_join_rules(got[1], user_id) # "ok"
          THEN Returned("join_room", user_id, room_id, got,
                        check_join_rules(got[1], user_id), NoResp)
          ELSE Running("join_update", "join_room", user_id, room_id,
                       Some(process_member_event(got[1],
                              member_event(user_id, room_id, "join"))))]
  /\ calls' = calls + 1
  /\ UNCHANGED <<rooms, pureVars>>

\* join_room from the await on update_room (room.rs 299-301).
join_room_update(t) ==
  /\ tasks[t].pc = "join_update"
  /\ LET r == store_update_room(rooms, tasks[t].snap[1])
     IN /\ rooms' = r.rooms
        /\ tasks' = [tasks EXCEPT ![t] =
             Returned(@.op, @.user, @.room, @.snap,
                      IF r.err = "ok" THEN "ok" ELSE StateErrorOf(r.err),
                      IF r.err = "ok" THEN Some(@.room) ELSE NoResp)]
  /\ UNCHANGED <<calls, pureVars>>

\* leave_room up to the await on update_room (room.rs 310-338).
leave_room_get(t, user_id, room_id) ==
  /\ CanStart(t)
  /\ LET got == store_get_room(rooms, room_id)
     IN tasks' = [tasks EXCEPT ![t] =
          IF got = None
          THEN Returned("leave_room", user_id, room_id, None, "RoomNotFound", NoResp)
          ELSE IF ~is_member(got[1], user_id)
          THEN Returned("leave_room", user_id, room_id, got, "UserNotInRoom", NoResp)
          ELSE Running("leave_update", "leave_room", user_id, room_id,
                       Some(process_member_event(got[1],
                              member_event(user_id, room_id, "leave"))))]
  /\ calls' = calls + 1
  /\ UNCHANGED <<rooms, pureVars>>

\* leave_room from the await on update_room (room.rs 341-343).
leave_room_update(t) ==
  /\ tasks[t].pc = "leave_update"
  /\ LET r == store_update_room(rooms, tasks[t].snap[1])
     IN /\ rooms' = r.rooms
        /\ tasks' = [tasks EXCEPT ![t] =
             Returned(@.op, @.user, @.room, @.snap,
                      IF r.err = "ok" THEN "ok" ELSE StateErrorOf(r.err), NoResp)]
  /\ UNCHANGED <<calls, pureVars>>

\* get_room_summary (room.rs 435-455).
get_room_summary(t, user_id, room_id) ==
  /\ CanStart(t)
  /\ LET got == store_get_room(rooms, room_id)
     IN tasks' = [tasks EXCEPT ![t] =
          IF got = None
          THEN Returned("get_room_summary", user_id, room_id, None,
                        "RoomNotFound", NoResp)
          ELSE IF ~is_member(got[1], user_id)
          THEN Returned("get_room_summary", user_id, room_id, got,
                        "UserNotInRoom", NoResp)
          ELSE Returned("get_room_summary", user_id, room_id, got, "ok",
                        Some(get_summary(got[1])))]
  /\ calls' = calls + 1
  /\ UNCHANGED <<rooms, pureVars>>

\* get_messages (room.rs 396-421): no timeline is kept, the chunk is empty and
\* the tokens default to "0".
get_messages(t, user_id, room_id) ==
  /\ CanStart(t)
  /\ LET got == store_get_room(rooms, room_id)
     IN tasks' = [tasks EXCEPT ![t] =
          IF got = None
          THEN Returned("get_messages", user_id, room_id, None,
                        "RoomNotFound", NoResp)
          ELSE IF ~is_member(got[1], user_id)
          THEN Returned("get_messages", user_id, room_id, got,
                        "UserNotInRoom", NoResp)
          ELSE Returned("get_messages", user_id, room_id, got, "ok",
                        Some([chunk |-> <<>>, start |-> "0", end |-> "0"]))]
  /\ calls' = calls + 1
  /\ UNCHANGED <<rooms, pureVars>>

\* The byte ceiling of a message body (room.rs 366).
MaxBodyLen == 65536

BodyLens == {MaxBodyLen, MaxBodyLen + 1, 70000}

\* The membership check of send_message made after the size check.
send_message_checks_size_first(room_state, user_id, body_len) ==
  IF body_len > MaxBodyLen THEN "MessageTooLarge"
  ELSE IF ~is_member(room_state, user_id) THEN "UserNotInRoom"
  ELSE "ok"

\* The size check of send_message with >= for >.
send_message_checks_ge(room_state, user_id, body_len) ==
  IF ~is_member(room_state, user_id) THEN "UserNotInRoom"
  ELSE IF body_len >= MaxBodyLen THEN "MessageTooLarge"
  ELSE "ok"

\* room.rs 360-368: the checks of send_message on the room state it loaded.
send_message_checks(room_state, user_id, body_len) ==
  IF ~is_member(room_state, user_id) THEN "UserNotInRoom"
  ELSE IF body_len > MaxBodyLen THEN "MessageTooLarge"
  ELSE "ok"

\* send_message that keeps the accepted message in the room state and writes
\* the room back with update_room.
send_message_stored(t, user_id, room_id, body_len) ==
  /\ CanStart(t)
  /\ LET got == store_get_room(rooms, room_id)
         chk == send_message_checks(got[1], user_id, body_len)
         event == with_state_key(
                    MatrixEvent_new(HandlerEventId, HandlerNow, "m.room.message",
                                    RawContent("body"), user_id, room_id), "")
     IN /\ tasks' = [tasks EXCEPT ![t] =
             IF got = None
             THEN Returned("send_message", user_id, room_id, None,
                           "RoomNotFound", NoResp)
             ELSE IF chk = "MessageTooLarge"
             THEN Returned("send_message", user_id, room_id, got, chk,
                           Some(ToString(body_len)))
             ELSE IF chk # "ok"
             THEN Returned("send_message", user_id, room_id, got, chk, NoResp)
             ELSE Returned("send_message", user_id, room_id, got, "ok",
                           Some(HandlerEventId))]
        /\ rooms' = IF got # None /\ chk = "ok"
                    THEN store_update_room(rooms,
                           [got[1] EXCEPT !.state_events =
                              MapInsert(@, <<"m.room.message", "">>, event)]).rooms
                    ELSE rooms
  /\ calls' = calls + 1
  /\ UNCHANGED pureVars

\* send_message (room.rs 347-393).  MessageTooLarge carries the body length
\* as its message prints it;
\* the response of an accepted message carries the new event id.
send_message(t, user_id, room_id, body_len) ==
  /\ CanStart(t)
  /\ LET got == store_get_room(rooms, room_id)
         chk == send_message_checks(got[1], user_id, body_len)
     IN tasks' = [tasks EXCEPT ![t] =
          IF got = None
          THEN Returned("send_message", user_id, room_id, None,
                        "RoomNotFound", NoResp)
          ELSE IF chk = "MessageTooLarge"
          THEN Returned("send_message", user_id, room_id, got, chk,
                        Some(ToString(body_len)))
          ELSE IF chk # "ok"
          THEN Returned("send_message", user_id, room_id, got, chk, NoResp)
          ELSE Returned("send_message", user_id, room_id, got, "ok",
                        Some(HandlerEventId))]
  /\ calls' = calls + 1
  /\ UNCHANGED <<rooms, pureVars>>

\* A holder of the shared store (AppState.state_store) calls delete_room
\* (state.rs 262-270); the task keeps what the call returned.
delete_room(t, room_id) ==
  /\ CanStart(t)
  /\ LET r == store_delete_room(rooms, room_id)
     IN /\ rooms' = r.rooms
        /\ tasks' = [tasks EXCEPT ![t] =
             Returned("delete_room", "", room_id, None, r.err, NoResp)]
  /\ calls' = calls + 1
  /\ UNCHANGED pureVars

NoCall == [op |-> "none", err |-> "none"]

PureIdle ==
  /\ rstate = RoomState_new("", "", "")
  /\ input = <<>>
  /\ resolved = None
  /\ last = NoCall

Init ==
  /\ rooms = <<>>
  /\ tasks = [t \in Tasks |-> IdleTask]
  /\ calls = 0
  /\ PureIdle

Next ==
  \/ \E t \in Tasks, u \in Users, c \in Configs : create_room_begin(t, u, c)
  \/ \E t \in Tasks : create_room_store(t)
  \/ \E t \in Tasks, u \in Users, r \in RoomIds : join_room_get(t, u, r)
  \/ \E t \in Tasks : join_room_update(t)
  \/ \E t \in Tasks, u \in Users, r \in RoomIds : leave_room_get(t, u, r)
  \/ \E t \in Tasks : leave_room_update(t)
  \/ \E t \in Tasks, u \in Users, r \in RoomIds : get_room_summary(t, u, r)
  \/ \E t \in Tasks, u \in Users, r \in RoomIds, n \in BodyLens :
       send_message(t, u, r, n)
  \/ \E t \in Tasks, u \in Users, r \in RoomIds : get_messages(t, u, r)
  \/ \E t \in Tasks, r \in RoomIds : delete_room(t, r)

Spec == Init /\ [][Next]_vars

(***************************************************************************)
(* The state resolver as a function of its arguments: every list of        *)
(* competing m.room.name events of at most MaxEvents events, over every    *)
(* assignment of power levels to their senders.                            *)
(***************************************************************************)
Timestamps == {50, 100}

SenderLevels == {50, 80}

PureRoomId == "!u1:matrix.local"

PureCreator == "@alice:example.org"

EventIdName(i) == "$" \o ToString(i)

\* The place of an event id in the lexicographic order of the ids.
EventIdRank(event_id) == CHOOSE i \in 1..MaxEvents : EventIdName(i) = event_id

\* A room state with the given power_levels.users and the given joined users.
RoomStateWith(levels, joined) ==
  [RoomState_new(PureRoomId, PureCreator, "9") EXCEPT
     !.power_levels.users = Some(levels),
     !.members = [u \in joined |-> "join"]]

\* The room states handed to the resolver: every sender joined, or only the
\* creator joined.
ResolverRoomStates ==
  { RoomStateWith(lv, joined) :
      lv \in [Users -> SenderLevels], joined \in {Users, {PureCreator}} }

Candidates ==
  { with_state_key(
      MatrixEvent_new(EventIdName(i), ts, "m.room.name",
                      RoomNameContent("Name" \o ToString(i)), u, PureRoomId),
      "") : i \in 1..MaxEvents, ts \in Timestamps, u \in Users }

CandidateLists ==
  { s \in UNION {[1..n -> Candidates] : n \in 0..MaxEvents} :
      \A i \in 1..Len(s), j \in 1..Len(s) :
        i # j => s[i].event_id # s[j].event_id }

HandlersIdle ==
  /\ rooms = <<>>
  /\ tasks = [t \in Tasks |-> IdleTask]
  /\ calls = 0

ResolverInit ==
  /\ HandlersIdle
  /\ rstate \in ResolverRoomStates
  /\ input \in CandidateLists
  /\ resolved = None
  /\ last = NoCall

\* A call of resolve_state_conflicts on the candidates.
resolve_call ==
  /\ resolved = None
  /\ LET r == resolve_state_conflicts(<<>>, input)
     IN /\ resolved' = Some(r.events)
        /\ last' = [op |-> "resolve_state_conflicts", err |-> r.err]
  /\ UNCHANGED <<handlerVars, rstate, input>>

ResolverNext == resolve_call

SpecResolver == ResolverInit /\ [][ResolverNext]_vars

(***************************************************************************)
(* add_state_event and validate_event_auth as functions of the room state  *)
(* and the event: every assignment of power levels and memberships, every  *)
(* power-levels, name and message event.                                   *)
(***************************************************************************)
AuthLevels == {0, 50, 100}

GrantedLevels == {40, 60}

RoomPowerLevelsContent(users) ==
  [kind |-> "RoomPowerLevels", users |-> Some(users), users_default |-> Some(0),
   events |-> Some(<<>>), events_default |-> Some(0), state_default |-> Some(50),
   ban |-> Some(50), kick |-> Some(50), redact |-> Some(50), invite |-> Some(50)]

RoomMessageContent(body) == [kind |-> "RoomMessage", msgtype |-> "m.text", body |-> body]

AuthRoomStates ==
  {RoomStateWith(lv, joined) : lv \in [Users -> AuthLevels], joined \in SUBSET Users}

AuthEvents ==
  { with_state_key(
      MatrixEvent_new(EventIdName(1), 50, "m.room.power_levels",
                      RoomPowerLevelsContent(v :> lvl), u, PureRoomId),
      "") : u \in Users, v \in Users, lvl \in GrantedLevels }
  \cup
  { with_state_key(
      MatrixEvent_new(EventIdName(2), 50, "m.room.name",
                      RoomNameContent("General"), u, PureRoomId),
      "") : u \in Users }
  \cup
  { MatrixEvent_new(EventIdName(3), 50, "m.room.message",
                    RoomMessageContent("hello"), u, PureRoomId) : u \in Users }

AuthInit ==
  /\ HandlersIdle
  /\ rstate \in AuthRoomStates
  /\ input = <<>>
  /\ resolved = None
  /\ last = NoCall

\* A call of RoomState::add_state_event on the room state.
add_state_event_call(event) ==
  /\ LET r == add_state_event(rstate, event)
     IN /\ rstate' = r.state
        /\ last' = [op |-> "add_state_event", err |-> r.err]
  /\ input' = <<event>>
  /\ UNCHANGED <<handlerVars, resolved>>

\* A call of StateResolver::validate_event_auth against the room state.
validate_event_auth_call(event) ==
  /\ last' = [op |-> "validate_event_auth",
              err |-> validate_event_auth(event, <<>>, rstate)]
  /\ input' = <<event>>
  /\ UNCHANGED <<handlerVars, rstate, resolved>>

AuthNext ==
  \/ \E e \in AuthEvents : add_state_event_call(e)
  \/ \E e \in AuthEvents : validate_event_auth_call(e)

SpecAuth == AuthInit /\ [][AuthNext]_vars

(***************************************************************************)
(* SpecMember: RoomState::process_member_event and the join_room handler  *)
(* applied, one call after the other, to a room state.  input is the log  *)
(* of the calls made: the member event of each call, what the call        *)
(* returned and the room state it was made on.                            *)
(***************************************************************************)
MaxMemberCalls == 2

Memberships == {"join", "leave", "invite", "ban", "knock"}

\* Member events: any sender, any target (state key), any membership.
MemberEvents ==
  { with_state_key(
      MatrixEvent_new(HandlerEventId, HandlerNow, "m.room.member",
                      RoomMemberContent(m), s, PureRoomId),
      k) : m \in Memberships, s \in Users, k \in Users }

\* The room states that create_room, join_room and leave_room produce from a
\* room of PureCreator: a set of joined users, a public or an invite-only
\* join rule.
MemberRoomStates ==
  { [RoomState_new(PureRoomId, PureCreator, "9") EXCEPT
       !.members = [u \in joined |-> "join"],
       !.join_rules = Some(jr)] :
    joined \in SUBSET Users, jr \in {"public", "invite"} }

MemberInit ==
  /\ HandlersIdle
  /\ rstate \in MemberRoomStates
  /\ input = <<>>
  /\ resolved = None
  /\ last = NoCall

Logged(op, event, err) ==
  [op |-> op, arg |-> event, err |-> err, before |-> rstate]

\* A call of RoomState::process_member_event on the room state; it returns
\* Ok(()) on every path (state.rs 172).
process_member_event_call(event) ==
  /\ Len(input) < MaxMemberCalls
  /\ rstate' = process_member_event(rstate, event)
  /\ last' = [op |-> "process_member_event", err |-> "ok"]
  /\ input' = Append(input, Logged("process_member_event", event, "ok"))
  /\ UNCHANGED <<handlerVars, resolved>>

\* join_room (room.rs 247-302) run to its end on a store that holds the room
\* state: the join-rule check, then the member event it builds for the user.
join_room_call(user_id) ==
  /\ Len(input) < MaxMemberCalls
  /\ LET chk == check_join_rules(rstate, user_id)
         event == member_event(user_id, rstate.room_id, "join")
     IN /\ rstate' = IF chk = "ok" THEN process_member_event(rstate, event)
                     ELSE rstate
        /\ last' = [op |-> "join_room", err |-> chk]
        /\ input' = Append(input, Logged("join_room", event, chk))
  /\ UNCHANGED <<handlerVars, resolved>>

MemberNext ==
  \/ \E e \in MemberEvents : process_member_event_call(e)
  \/ \E u \in Users : join_room_call(u)

SpecMember == MemberInit /\ [][MemberNext]_vars

(***************************************************************************)
(* SpecLock: the operations of InMemoryStateStore with the lock they take. *)
(* The store is one Arc<RwLock<HashMap>> (state.rs 226): get_room takes    *)
(* rooms.read(), create_room, update_room and delete_room take             *)
(* rooms.write().  A task calls an operation, waits for the lock, is       *)
(* inside the operation while it holds the lock, and leaves it with the    *)
(* result.  input is the log of the room states that completed writes      *)
(* stored.                                                                 *)
(***************************************************************************)
WriteOps == {"create_room", "update_room", "delete_room"}

\* The room states a caller passes to create_room and update_room.
WriteArgs == {RoomState_new(r, u, "9") : r \in RoomIds, u \in Users}

Waiting(t) == tasks[t].pc = "wait"

Inside(ts, t) == ts[t].pc = "inside"

\* A write lock handed out while readers hold the lock.
write_lock_free_despite_readers(ts) ==
  \A t \in Tasks : ~(Inside(ts, t) /\ ts[t].op \in WriteOps)

\* rooms.write().await returns when nobody holds the lock.
write_lock_free(ts) == \A t \in Tasks : ~Inside(ts, t)

\* rooms.read().await returns when no writer holds the lock.
read_lock_free(ts) ==
  \A t \in Tasks : ~(Inside(ts, t) /\ ts[t].op \in WriteOps)

LockInit ==
  /\ HandlersIdle
  /\ PureIdle

\* A call of get_room, up to the await on rooms.read() (state.rs 239-240).
store_get_room_begin(t, room_id) ==
  /\ CanStart(t)
  /\ tasks' = [tasks EXCEPT ![t] = Running("wait", "get_room", "", room_id, None)]
  /\ calls' = calls + 1
  /\ UNCHANGED <<rooms, pureVars>>

\* A call of create_room, up to the await on rooms.write() (state.rs 244-245).
store_create_room_begin(t, room_state) ==
  /\ CanStart(t)
  /\ tasks' = [tasks EXCEPT ![t] =
       Running("wait", "create_room", "", room_state.room_id, Some(room_state))]
  /\ calls' = calls + 1
  /\ UNCHANGED <<rooms, pureVars>>

\* A call of update_room, up to the await on rooms.write() (state.rs 250-251).
store_update_room_begin(t, room_state) ==
  /\ CanStart(t)
  /\ tasks' = [tasks EXCEPT ![t] =
       Running("wait", "update_room", "", room_state.room_id, Some(room_state))]
  /\ calls' = calls + 1
  /\ UNCHANGED <<rooms, pureVars>>

\* A call of delete_room, up to the await on rooms.write() (state.rs 262-263).
store_delete_room_begin(t, room_id) ==
  /\ CanStart(t)
  /\ tasks' = [tasks EXCEPT ![t] = Running("wait", "delete_room", "", room_id, None)]
  /\ calls' = calls + 1
  /\ UNCHANGED <<rooms, pureVars>>

\* The lock is granted to a waiting task.
lock_acquire(t) ==
  /\ Waiting(t)
  /\ IF tasks[t].op \in WriteOps THEN write_lock_free(tasks)
     ELSE read_lock_free(tasks)
  /\ tasks' = [tasks EXCEPT ![t].pc = "inside"]
  /\ UNCHANGED <<rooms, calls, pureVars>>

\* get_room under the read lock: the clone of the stored room, then the guard
\* is dropped (state.rs 241-242).
store_get_room_end(t) ==
  /\ Inside(tasks, t) /\ tasks[t].op = "get_room"
  /\ tasks' = [tasks EXCEPT ![t] =
       Returned(@.op, "", @.room, None, "ok", store_get_room(rooms, @.room))]
  /\ UNCHANGED <<rooms, calls, pureVars>>

\* The body of a write operation under the write lock, then the guard is
\* dropped (state.rs 246-247, 252-259, 264-269).
store_write_end(t) ==
  /\ Inside(tasks, t) /\ tasks[t].op \in WriteOps
  /\ LET r == CASE tasks[t].op = "create_room" ->
                     store_create_room(rooms, tasks[t].snap[1])
                [] tasks[t].op = "update_room" ->
                     store_update_room(rooms, tasks[t].snap[1])
                [] tasks[t].op = "delete_room" ->
                     store_delete_room(rooms, tasks[t].room)
     IN /\ rooms' = r.rooms
        /\ tasks' = [tasks EXCEPT ![t] =
             Returned(@.op, "", @.room, @.snap, r.err, NoResp)]
        /\ input' = IF tasks[t].op # "delete_room" /\ r.err = "ok"
                    THEN Append(input, tasks[t].snap[1])
                    ELSE input
  /\ UNCHANGED <<calls, rstate, resolved, last>>

LockNext ==
  \/ \E t \in Tasks, r \in RoomIds : store_get_room_begin(t, r)
  \/ \E t \in Tasks, s \in WriteArgs : store_create_room_begin(t, s)
  \/ \E t \in Tasks, s \in WriteArgs : store_update_room_begin(t, s)
  \/ \E t \in Tasks, r \in RoomIds : store_delete_room_begin(t, r)
  \/ \E t \in Tasks : lock_acquire(t)
  \/ \E t \in Tasks : store_get_room_end(t)
  \/ \E t \in Tasks : store_write_end(t)

SpecLock == LockInit /\ [][LockNext]_vars

(***************************************************************************)
(* SpecCreate: create_room run from its call to its return, one call      *)
(* after the other, over every preset.  input is the request of the last  *)
(* call, rstate the room state the last successful call stored.           *)
(***************************************************************************)
Presets ==
  {None, Some("public_chat"), Some("private_chat"), Some("trusted_private_chat")}

CreateConfigs ==
  { [name |-> n, topic |-> tp, room_alias_name |-> Some("general"),
     room_version |-> None, initial_state |-> i, preset |-> p] :
    n \in {None, Some("General")}, tp \in {None, Some("Chat")},
    i \in {<<>>, <<[event_type |-> "custom.tag", state_key |-> "",
                    content |-> "v"]>>},
    p \in Presets }

CreateInit ==
  /\ HandlersIdle
  /\ PureIdle

\* create_room (room.rs 175-244) with no other request running.
create_room_call(creator, config) ==
  /\ \E room_id \in generate_room_id(config.room_alias_name) :
       LET built == build_room_state(room_id, creator, config)
       IN IF store_room_exists(rooms, room_id)
          THEN /\ last' = [op |-> "create_room", err |-> "RoomAlreadyExists"]
               /\ UNCHANGED <<rooms, rstate>>
          ELSE IF built.err # "ok"
          THEN /\ last' = [op |-> "create_room", err |-> StateErrorOf(built.err)]
               /\ UNCHANGED <<rooms, rstate>>
          ELSE /\ rooms' = store_create_room(rooms, built.state).rooms
               /\ rstate' = built.state
               /\ last' = [op |-> "create_room", err |-> "ok"]
  /\ input' = <<[creator |-> creator, config |-> config]>>
  /\ UNCHANGED <<tasks, calls, resolved>>

CreateNext == \E u \in Users, c \in CreateConfigs : create_room_call(u, c)

SpecCreate == CreateInit /\ [][CreateNext]_vars

(***************************************************************************)
(* room.rs: the handlers that only read (send_message, get_messages,       *)
(* get_room_summary, list_rooms) over a store that create_room and         *)
(* join_room filled, with delete_room as the concurrent writer.  list_rooms *)
(* keeps the ids it still has to look at and the ids it collected in       *)
(* input[t].                                                               *)
(***************************************************************************)
\* The room states create_room stores under a room id, and the ones a
\* join_room of the other user makes of them.
ReadRoomStates(room_id) ==
  UNION { LET built == build_room_state(room_id, creator, c).state
          IN {built} \cup
             {process_member_event(built, member_event(u, room_id, "join")) :
                u \in {x \in Users : check_join_rules(built, x) = "ok"}}
          : creator \in Users,
            c \in {x \in Configs :
                     IF x.room_alias_name = None THEN room_id \in RandomIds
                     ELSE room_id = AliasRoomId(x.room_alias_name[1])} }

ReadStores ==
  UNION { {rs \in [ids -> UNION {ReadRoomStates(r) : r \in ids}] :
             \A r \in ids : rs[r] \in ReadRoomStates(r)}
          : ids \in SUBSET RoomIds }

NoList == [all_rooms |-> <<>>, user_rooms |-> <<>>]

ReadInit ==
  /\ rooms \in ReadStores
  /\ tasks = [t \in Tasks |-> IdleTask]
  /\ calls = 0
  /\ rstate = RoomState_new("", "", "")
  /\ input = [t \in Tasks |-> NoList]
  /\ resolved = None
  /\ last = NoCall

\* list_rooms up to the first await on get_room (room.rs 462-466); with no
\* room stored the loop has nothing to do and the call returns.
list_rooms_begin(t, user_id) ==
  /\ CanStart(t)
  /\ \E all_rooms \in store_list_rooms(rooms) :
       /\ tasks' = [tasks EXCEPT ![t] =
            IF all_rooms = <<>>
            THEN Returned("list_rooms", user_id, "", None, "ok", Some(<<>>))
            ELSE Running("list_get", "list_rooms", user_id, "", None)]
       /\ input' = [input EXCEPT ![t] =
            [all_rooms |-> all_rooms, user_rooms |-> <<>>]]
  /\ calls' = calls + 1
  /\ UNCHANGED <<rooms, rstate, resolved, last>>

\* One turn of the loop of list_rooms (room.rs 466-472): get_room of the
\* next id, which is kept when the room is still stored and the user is a
\* member of it; after the last id the call returns (room.rs 474).
list_rooms_get(t) ==
  /\ tasks[t].pc = "list_get"
  /\ LET room_id == Head(input[t].all_rooms)
         rest == Tail(input[t].all_rooms)
         got == store_get_room(rooms, room_id)
         user_rooms == IF got # None /\ is_member(got[1], tasks[t].user)
                       THEN Append(input[t].user_rooms, room_id)
                       ELSE input[t].user_rooms
     IN /\ tasks' = [tasks EXCEPT ![t] =
             IF rest = <<>>
             THEN Returned(@.op, @.user, @.room, @.snap, "ok", Some(user_rooms))
             ELSE @]
        /\ input' = [input EXCEPT ![t] =
             [all_rooms |-> rest, user_rooms |-> user_rooms]]
  /\ UNCHANGED <<rooms, calls, rstate, resolved, last>>

\* The calls of the reading handlers and of the writer, MaxReadCalls of
\* them at most; a turn of the loop of list_rooms is no new call.
ReadCall ==
  \/ \E t \in Tasks, u \in Users, r \in RoomIds, n \in BodyLens :
       send_message(t, u, r, n)
  \/ \E t \in Tasks, u \in Users, r \in RoomIds : get_messages(t, u, r)
  \/ \E t \in Tasks, u \in Users, r \in RoomIds : get_room_summary(t, u, r)
  \/ \E t \in Tasks, u \in Users : list_rooms_begin(t, u)
  \/ \E t \in Tasks, r \in RoomIds : delete_room(t, r)

ReadNext ==
  \/ calls < MaxReadCalls /\ ReadCall
  \/ \E t \in Tasks : list_rooms_get(t)

SpecRead == ReadInit /\ [][ReadNext]_vars

(***************************************************************************)
(* Properties of the handlers and the store, checked under Spec           *)
(***************************************************************************)
Joined(state, user_id) ==
  user_id \in DOMAIN state.members /\ state.members[user_id] = "join"

Invited(state, user_id) ==
  user_id \in DOMAIN state.members /\ state.members[user_id] = "invite"

ReturnedOk(t, op) ==
  tasks[t].pc = "idle" /\ tasks[t].op = op /\ tasks[t].result = "ok"

Reflected(t) ==
  LET m == rooms[tasks[t].room] IN
  /\ tasks[t].op = "join_room" => Joined(m, tasks[t].user)
  /\ tasks[t].op = "leave_room" => ~Joined(m, tasks[t].user)

\* C1: two write operations (join_room or leave_room, by different users) on
\* the same room never interleave their get_room .. update_room sequences:
\* once both have returned success, the stored members map reflects both.
C1_NoLostUpdate ==
  \A t1 \in Tasks, t2 \in Tasks :
    ( /\ t1 # t2
      /\ tasks[t1].op \in {"join_room", "leave_room"}
      /\ tasks[t2].op \in {"join_room", "leave_room"}
      /\ ReturnedOk(t1, tasks[t1].op) /\ ReturnedOk(t2, tasks[t2].op)
      /\ tasks[t1].room = tasks[t2].room
      /\ tasks[t1].user # tasks[t2].user
      /\ tasks[t1].room \in DOMAIN rooms )
    => Reflected(t1) /\ Reflected(t2)

\* C5: join_room on a room whose join rule is "invite" fails with
\* InsufficientPermissions for every user who is neither invited nor an admin
\* (power level 100) and leaves the store as it was; join_room on a room whose
\* join rule is "public" passes the join-rule check for every user, and its
\* write to the room (when the room is still stored) succeeds and makes the
\* user joined.
C5_JoinRules ==
  [][\A t \in Tasks :
       /\ LET u == tasks'[t].user
              r == tasks'[t].room
          IN
            ( /\ tasks'[t].op = "join_room"
              /\ join_room_get(t, u, r)
              /\ r \in DOMAIN rooms ) =>
              /\ ( /\ rooms[r].join_rules = Some("invite")
                   /\ get_user_power_level(rooms[r], u) < 100
                   /\ ~Invited(rooms[r], u) )
                 => /\ tasks'[t].pc = "idle"
                    /\ tasks'[t].result = "InsufficientPermissions"
                    /\ rooms' = rooms
              /\ rooms[r].join_rules = Some("public")
                 => tasks'[t].pc = "join_update"
       /\ ( /\ join_room_update(t)
            /\ tasks[t].snap[1].join_rules = Some("public")
            /\ tasks[t].room \in DOMAIN rooms )
          => /\ tasks'[t].result = "ok"
             /\ Joined(rooms'[tasks[t].room], tasks[t].user)
    ]_vars

\* C5 witness: one join was refused on an invite-only room for a user below
\* level 100, and another join on a public room returned success with the
\* user joined in the store.
C5_Witness ==
  \E t1 \in Tasks, t2 \in Tasks :
    /\ tasks[t1].pc = "idle" /\ tasks[t1].op = "join_room"
    /\ tasks[t1].result = "InsufficientPermissions"
    /\ tasks[t1].snap[1].join_rules = Some("invite")
    /\ get_user_power_level(tasks[t1].snap[1], tasks[t1].user) < 100
    /\ ReturnedOk(t2, "join_room")
    /\ tasks[t2].room \in DOMAIN rooms
    /\ rooms[tasks[t2].room].join_rules = Some("public")
    /\ rooms[tasks[t2].room].creator # tasks[t2].user
    /\ Joined(rooms[tasks[t2].room], tasks[t2].user)

\* C6: leave_room by a user who is joined goes on to its write, which (when
\* the room is still stored) succeeds and leaves the user out of the members;
\* leave_room by a user who is not joined, as on a second leave with no join
\* in between, fails with UserNotInRoom and leaves the store unchanged.
C6_LeaveTwice ==
  [][\A t \in Tasks :
       /\ LET u == tasks'[t].user
              r == tasks'[t].room
          IN
            ( /\ tasks'[t].op = "leave_room"
              /\ leave_room_get(t, u, r)
              /\ r \in DOMAIN rooms ) =>
              /\ Joined(rooms[r], u) => tasks'[t].pc = "leave_update"
              /\ ~Joined(rooms[r], u)
                 => /\ tasks'[t].pc = "idle"
                    /\ tasks'[t].result = "UserNotInRoom"
                    /\ rooms' = rooms
       /\ (leave_room_update(t) /\ tasks[t].room \in DOMAIN rooms)
          => /\ tasks'[t].result = "ok"
             /\ tasks[t].user \notin DOMAIN rooms'[tasks[t].room].members
    ]_vars

\* C6 witness: a leave returned success, and a further leave of the same user
\* from the same room returned UserNotInRoom; the user is not a member.
C6_Witness ==
  \E t1 \in Tasks, t2 \in Tasks :
    /\ ReturnedOk(t1, "leave_room")
    /\ tasks[t2].pc = "idle" /\ tasks[t2].op = "leave_room"
    /\ tasks[t2].result = "UserNotInRoom"
    /\ tasks[t2].user = tasks[t1].user /\ tasks[t2].room = tasks[t1].room
    /\ tasks[t2].snap # None
    /\ tasks[t2].snap[1].members = tasks[t1].snap[1].members
    /\ tasks[t1].room \in DOMAIN rooms
    /\ tasks[t1].user \notin DOMAIN rooms[tasks[t1].room].members

\* The name and the topic a creation config supplied: create_room records
\* them as the content of the m.room.name and m.room.topic events of the room
\* (room.rs 209-227).
SuppliedName(state) ==
  IF <<"m.room.name", "">> \in DOMAIN state.state_events
  THEN Some(state.state_events[<<"m.room.name", "">>].content.name)
  ELSE None

SuppliedTopic(state) ==
  IF <<"m.room.topic", "">> \in DOMAIN state.state_events
  THEN Some(state.state_events[<<"m.room.topic", "">>].content.topic)
  ELSE None

\* C7: round trip: get_room_summary called by the creator of a room returns
\* the name and the topic exactly as the creation config supplied them.
C7_SummaryRoundTrip ==
  \A t \in Tasks :
    ( /\ ReturnedOk(t, "get_room_summary")
      /\ tasks[t].user = tasks[t].snap[1].creator )
    => /\ tasks[t].resp[1].name = SuppliedName(tasks[t].snap[1])
       /\ tasks[t].resp[1].topic = SuppliedTopic(tasks[t].snap[1])

\* C9: immediately after a successful create_room, for every creation
\* configuration, the creator's power level in the stored room state is
\* exactly 100.
C9_CreatorIsAdmin ==
  [][\A t \in Tasks :
       (create_room_store(t) /\ tasks'[t].result = "ok")
       => /\ tasks[t].room \in DOMAIN rooms'
          /\ get_user_power_level(rooms'[tasks[t].room], tasks[t].user) = 100
    ]_vars

\* C9 witness: a create_room returned success and the room it stored has its
\* creator at level 100.
C9_Witness ==
  \E t \in Tasks :
    /\ ReturnedOk(t, "create_room")
    /\ tasks[t].room \in DOMAIN rooms
    /\ rooms[tasks[t].room] = tasks[t].snap[1]
    /\ rooms[tasks[t].room].creator = tasks[t].user
    /\ get_user_power_level(rooms[tasks[t].room], tasks[t].user) = 100

\* C10: the store's create_room, called with a room state whose room id is
\* already in the store, fails with a conflict error and leaves the stored
\* room unchanged.
C10_CreateNeverOverwrites ==
  [][\A t \in Tasks :
       (create_room_store(t) /\ tasks[t].room \in DOMAIN rooms)
       => /\ tasks'[t].result # "ok"
          /\ rooms' = rooms
    ]_vars

\* C11: update_room never inserts: the write-back of a join_room or a
\* leave_room never changes which room ids are stored, and when the room id is
\* absent (never created, or deleted after the handler loaded it) the handler
\* fails with RoomNotFound and the store stays as it was.
C11_UpdateNeverInserts ==
  [][\A t \in Tasks :
       (join_room_update(t) \/ leave_room_update(t))
       => /\ DOMAIN rooms' = DOMAIN rooms
          /\ tasks[t].room \notin DOMAIN rooms
             => /\ tasks'[t].result = "StateError(RoomNotFound)"
                /\ rooms' = rooms
    ]_vars

\* C11 witness: a join_room or leave_room that loaded the room wrote back
\* after a delete_room of that room succeeded; it returned RoomNotFound and
\* the room is absent.
C11_Witness ==
  \E t1 \in Tasks, t2 \in Tasks :
    /\ tasks[t1].pc = "idle" /\ tasks[t1].op \in {"join_room", "leave_room"}
    /\ tasks[t1].snap # None
    /\ tasks[t1].result = "StateError(RoomNotFound)"
    /\ ReturnedOk(t2, "delete_room")
    /\ tasks[t2].room = tasks[t1].room
    /\ tasks[t1].room \notin DOMAIN rooms

\* C12: delete_room on a stored room id removes that room and no other and
\* returns success; on a room id that is not stored it returns RoomNotFound
\* and leaves the store unchanged.
C12_DeleteExactlyOne ==
  [][\A t \in Tasks :
       LET r == tasks'[t].room IN
       (tasks'[t].op = "delete_room" /\ delete_room(t, r))
       => IF r \in DOMAIN rooms
          THEN /\ tasks'[t].result = "ok"
               /\ DOMAIN rooms' = DOMAIN rooms \ {r}
               /\ \A x \in DOMAIN rooms' : rooms'[x] = rooms[x]
          ELSE /\ tasks'[t].result = "RoomNotFound"
               /\ rooms' = rooms
    ]_vars

\* C12 witness: a delete_room returned success, a second delete_room of the
\* same id returned RoomNotFound, and another room is still stored.
C12_Witness ==
  \E t1 \in Tasks, t2 \in Tasks :
    /\ ReturnedOk(t1, "delete_room")
    /\ tasks[t2].pc = "idle" /\ tasks[t2].op = "delete_room"
    /\ tasks[t2].result = "RoomNotFound"
    /\ tasks[t2].room = tasks[t1].room
    /\ tasks[t1].room \notin DOMAIN rooms
    /\ DOMAIN rooms # {}

\* C13: send_message by a joined member of a stored room is rejected with
\* MessageTooLarge when the body is longer than 65536 bytes, with no event
\* built and the store untouched, and is accepted with the id of the new
\* event when the body is 65536 bytes or shorter.
C13_BodyCeiling ==
  [][\A t \in Tasks, n \in BodyLens :
       LET u == tasks'[t].user
           r == tasks'[t].room
       IN
       ( /\ tasks'[t].op = "send_message"
         /\ send_message(t, u, r, n)
         /\ r \in DOMAIN rooms
         /\ Joined(rooms[r], u) )
       => /\ rooms' = rooms
          /\ n > 65536 => /\ tasks'[t].result = "MessageTooLarge"
                          /\ tasks'[t].resp # Some(HandlerEventId)
          /\ n <= 65536 => /\ tasks'[t].result = "ok"
                           /\ tasks'[t].resp = Some(HandlerEventId)
    ]_vars

\* C13 witness: a joined member's message of 70000 bytes was rejected with
\* MessageTooLarge and another message of a joined member was accepted.
C13_Witness ==
  \E t1 \in Tasks, t2 \in Tasks :
    /\ tasks[t1].pc = "idle" /\ tasks[t1].op = "send_message"
    /\ tasks[t1].result = "MessageTooLarge"
    /\ tasks[t1].resp = Some("70000")
    /\ Joined(tasks[t1].snap[1], tasks[t1].user)
    /\ ReturnedOk(t2, "send_message")
    /\ Joined(tasks[t2].snap[1], tasks[t2].user)
    /\ tasks[t2].resp = Some(HandlerEventId)

\* C14: send_message on a stored room by a user who is not joined in it
\* (never joined, or left) fails with UserNotInRoom whatever the size of the
\* body; a message is accepted only from a joined sender.
C14_SenderMustBeJoined ==
  [][\A t \in Tasks, n \in BodyLens :
       LET u == tasks'[t].user
           r == tasks'[t].room
       IN
       ( /\ tasks'[t].op = "send_message"
         /\ send_message(t, u, r, n)
         /\ r \in DOMAIN rooms )
       => /\ ~Joined(rooms[r], u) => tasks'[t].result = "UserNotInRoom"
          /\ tasks'[t].result = "ok" => Joined(rooms[r], u)
    ]_vars

\* C14 witness: a user left a room with success, and a send_message of that
\* user to that room then returned UserNotInRoom.
C14_Witness ==
  \E t1 \in Tasks, t2 \in Tasks :
    /\ ReturnedOk(t1, "leave_room")
    /\ tasks[t2].pc = "idle" /\ tasks[t2].op = "send_message"
    /\ tasks[t2].result = "UserNotInRoom"
    /\ tasks[t2].user = tasks[t1].user /\ tasks[t2].room = tasks[t1].room
    /\ tasks[t2].snap # None
    /\ tasks[t2].snap[1].members = tasks[t1].snap[1].members
    /\ ~Joined(tasks[t2].snap[1], tasks[t2].user)

\* C18: the creator of a stored room is set once and never changes: no step
\* of create_room, join_room, leave_room or send_message changes the creator
\* of a room id that is stored before and after the step.
C18_CreatorNeverChanges ==
  [][\A r \in RoomIds :
       (r \in DOMAIN rooms /\ r \in DOMAIN rooms')
       => rooms'[r].creator = rooms[r].creator
    ]_vars

HandlerOps ==
  {"create_room", "join_room", "leave_room", "send_message", "get_messages",
   "get_room_summary"}

\* The status of each category of the error taxonomy: not found 404,
\* forbidden 403, conflict 409, validation 400, storage failure 500.
TaxonomyStatus(err) ==
  CASE err = "RoomNotFound" -> 404
    [] err \in {"UserNotInRoom", "InsufficientPermissions"} -> 403
    [] err = "RoomAlreadyExists" -> 409
    [] err \in {"InvalidRoomConfig", "MessageTooLarge"} -> 400
    [] err \in StateErrorResults -> 500

\* C21: every error a RoomHandler operation returns carries the status of its
\* taxonomy category.
C21_StatusOfCategory ==
  \A t \in Tasks :
    ( /\ tasks[t].pc = "idle"
      /\ tasks[t].op \in HandlerOps
      /\ tasks[t].result # "ok" )
    => status_code(tasks[t].result) = TaxonomyStatus(tasks[t].result)

\* C22: join_room, leave_room, send_message, get_messages and
\* get_room_summary called with a room id that is not stored return
\* RoomNotFound, and the call leaves the store as it was.
C22_AbsentRoomNotFound ==
  [][\A t \in Tasks :
       LET u == tasks'[t].user
           r == tasks'[t].room
       IN
       ( /\ tasks'[t].op \in HandlerOps \ {"create_room"}
         /\ r \notin DOMAIN rooms
         /\ \/ join_room_get(t, u, r)
            \/ leave_room_get(t, u, r)
            \/ get_room_summary(t, u, r)
            \/ get_messages(t, u, r)
            \/ \E n \in BodyLens : send_message(t, u, r, n) )
       => /\ tasks'[t].pc = "idle"
          /\ tasks'[t].result = "RoomNotFound"
          /\ rooms' = rooms
    ]_vars

\* C22 witness: a get_messages and a send_message on a room id that is not
\* stored both returned RoomNotFound.
C22_Witness ==
  \E t1 \in Tasks, t2 \in Tasks :
    /\ tasks[t1].pc = "idle" /\ tasks[t1].op = "get_messages"
    /\ tasks[t1].result = "RoomNotFound"
    /\ tasks[t2].pc = "idle" /\ tasks[t2].op = "send_message"
    /\ tasks[t2].result = "RoomNotFound"
    /\ tasks[t1].room \notin DOMAIN rooms
    /\ tasks[t2].room \notin DOMAIN rooms

\* C31: a join_room or leave_room whose room was deleted between its
\* get_room and its update_room fails with a not-found error of status 404.
C31_DeletedMidCallIsNotFound ==
  \A t \in Tasks :
    ( /\ tasks[t].pc = "idle"
      /\ tasks[t].op \in {"join_room", "leave_room"}
      /\ tasks[t].snap # None
      /\ tasks[t].result = StateErrorOf("RoomNotFound") )
    => status_code(tasks[t].result) = 404

\* C32: of the create_room calls that use one alias, sequential or
\* concurrent, one succeeds: a create_room that returns while the room id is
\* stored returns RoomAlreadyExists and leaves the store as it was.
C32_OneCreationPerAlias ==
  [][\A t \in Tasks :
       ( /\ tasks'[t].op = "create_room"
         /\ tasks'[t].pc = "idle"
         /\ tasks'[t].room \in DOMAIN rooms
         /\ \/ create_room_store(t)
            \/ \E c \in Configs : create_room_begin(t, tasks'[t].user, c) )
       => /\ tasks'[t].result = "RoomAlreadyExists"
          /\ rooms' = rooms
    ]_vars

\* A step of a handler changes the record of its own task only.
OthersKeep(t) == \A o \in Tasks \ {t} : tasks'[o] = tasks[o]

\* Some task holds the record of a successful leave_room of the user from
\* the room.
HasLeft(user_id, room_id) ==
  \E t0 \in Tasks :
    /\ ReturnedOk(t0, "leave_room")
    /\ tasks[t0].user = user_id /\ tasks[t0].room = room_id

\* C33: leaving is not terminal: a join_room by a user who has left a public
\* room passes the join-rule check again, and its write (when the room is
\* still stored) succeeds and makes the user joined again.
C33_RejoinAfterLeave ==
  [][\A t \in Tasks :
       LET u == tasks'[t].user
           r == tasks'[t].room
       IN
       /\ ( /\ tasks'[t].op = "join_room"
            /\ OthersKeep(t)
            /\ HasLeft(u, r)
            /\ join_room_get(t, u, r)
            /\ r \in DOMAIN rooms
            /\ rooms[r].join_rules = Some("public") )
          => tasks'[t].pc = "join_update"
       /\ ( /\ tasks[t].pc = "join_update"
            /\ join_room_update(t)
            /\ HasLeft(u, r)
            /\ tasks[t].snap[1].join_rules = Some("public")
            /\ r \in DOMAIN rooms )
          => /\ tasks'[t].result = "ok"
             /\ Joined(rooms'[r], u)
    ]_vars

\* C33 witness: a user who is not the creator left a public room with
\* success, joined it again with success, and is joined in the stored room,
\* which is the room state that join wrote.
C33_Witness ==
  \E t1 \in Tasks, t2 \in Tasks :
    /\ ReturnedOk(t1, "leave_room")
    /\ ReturnedOk(t2, "join_room")
    /\ tasks[t2].user = tasks[t1].user /\ tasks[t2].room = tasks[t1].room
    /\ tasks[t1].user \notin DOMAIN tasks[t1].snap[1].members
    /\ tasks[t2].room \in DOMAIN rooms
    /\ rooms[tasks[t2].room] = tasks[t2].snap[1]
    /\ rooms[tasks[t2].room].join_rules = Some("public")
    /\ rooms[tasks[t2].room].creator # tasks[t2].user
    /\ Joined(rooms[tasks[t2].room], tasks[t2].user)

\* What the store holds under a room id.
Stored(rs, room_id) ==
  IF room_id \in DOMAIN rs THEN Some(rs[room_id]) ELSE None

\* C34: rooms are independent: a step of a join_room, leave_room,
\* send_message or delete_room on one room (the store's update_room and
\* delete_room included) leaves what is stored under every other room id
\* unchanged; that is, a step that changes what is stored under another id
\* than the task's is no step of these.
C34_RoomsIndependent ==
  [][\A t \in Tasks :
       LET u == tasks'[t].user
           r == tasks'[t].room
       IN
       ( \E b \in RoomIds \ {r} : Stored(rooms', b) # Stored(rooms, b) )
       =>
       ~( /\ OthersKeep(t)
          /\ \/ /\ tasks'[t].op = "join_room"
                /\ join_room_update(t) \/ join_room_get(t, u, r)
             \/ /\ tasks'[t].op = "leave_room"
                /\ leave_room_update(t) \/ leave_room_get(t, u, r)
             \/ /\ tasks'[t].op = "send_message"
                /\ \E n \in BodyLens : send_message(t, u, r, n)
             \/ /\ tasks'[t].op = "delete_room"
                /\ delete_room(t, r) )
    ]_vars

\* C34 witness: two rooms are stored, a join_room wrote one of them and a
\* delete_room of a third call removed nothing of the other.
C34_Witness ==
  \E t \in Tasks, b \in RoomIds :
    /\ ReturnedOk(t, "join_room")
    /\ b # tasks[t].room
    /\ b \in DOMAIN rooms
    /\ tasks[t].room \in DOMAIN rooms
    /\ rooms[tasks[t].room] = tasks[t].snap[1]
    /\ tasks[t].user # rooms[tasks[t].room].creator

\* C35: a RoomHandler call that returns an error has written nothing: every
\* step of create_room, join_room, leave_room, send_message, get_messages or
\* get_room_summary that does not return success (a step before the call's
\* last one included) leaves the store as it was; that is, a step that
\* changes the store is no such step.
C35_ErrorLeavesStore ==
  [][\A t \in Tasks :
       LET u == tasks'[t].user
           r == tasks'[t].room
       IN
       rooms' # rooms
       =>
       ~( /\ tasks'[t].result # "ok"
          /\ OthersKeep(t)
          /\ \/ /\ tasks'[t].op = "create_room"
                /\ \/ create_room_store(t)
                   \/ \E c \in Configs : create_room_begin(t, u, c)
             \/ /\ tasks'[t].op = "join_room"
                /\ join_room_update(t) \/ join_room_get(t, u, r)
             \/ /\ tasks'[t].op = "leave_room"
                /\ leave_room_update(t) \/ leave_room_get(t, u, r)
             \/ /\ tasks'[t].op = "send_message"
                /\ \E n \in BodyLens : send_message(t, u, r, n)
             \/ /\ tasks'[t].op = "get_messages"
                /\ get_messages(t, u, r)
             \/ /\ tasks'[t].op = "get_room_summary"
                /\ get_room_summary(t, u, r) )
    ]_vars

\* C35 witness: a join_room passed its checks and failed in update_room
\* because the room had been deleted, and the room is not stored.
C35_Witness ==
  \E t \in Tasks :
    /\ tasks[t].pc = "idle" /\ tasks[t].op = "join_room"
    /\ tasks[t].snap # None
    /\ tasks[t].result = StateErrorOf("RoomNotFound")
    /\ tasks[t].room \notin DOMAIN rooms

\* The room states the handlers hold: the stored ones and the ones a call
\* read or built.
HeldRoomStates ==
  {rooms[r] : r \in DOMAIN rooms}
    \cup {tasks[t].snap[1] : t \in {x \in Tasks : tasks[x].snap # None}}

\* C36: in every room state reached through create_room, join_room and
\* leave_room every entry of the members map has the value join, so the
\* member_count of get_summary is the number of joined users (and is not
\* negative); the state a create_room built counts its creator.
C36_MembersAreJoined ==
  /\ \A s \in HeldRoomStates :
       /\ \A u \in DOMAIN s.members : s.members[u] = "join"
       /\ get_summary(s).member_count
            = Cardinality({u \in Users : is_member(s, u)})
       /\ get_summary(s).member_count >= 0
  /\ \A t \in Tasks :
       /\ tasks[t].op = "create_room" /\ tasks[t].snap # None
          => /\ is_member(tasks[t].snap[1], tasks[t].user)
             /\ get_summary(tasks[t].snap[1]).member_count = 1
       /\ ReturnedOk(t, "get_room_summary")
          => tasks[t].resp[1].member_count
               = Cardinality({u \in Users : is_member(tasks[t].snap[1], u)})

\* C36 witness: the creator left a room another user had joined, and that
\* user's get_room_summary counts one member.
C36_Witness ==
  \E t1 \in Tasks, t2 \in Tasks :
    /\ ReturnedOk(t1, "leave_room")
    /\ tasks[t1].snap[1].creator = tasks[t1].user
    /\ ReturnedOk(t2, "get_room_summary")
    /\ tasks[t2].room = tasks[t1].room
    /\ tasks[t2].snap = tasks[t1].snap
    /\ tasks[t2].resp[1].member_count = 1
    /\ tasks[t2].user # tasks[t1].user

\* C37: join_room, leave_room and send_message leave the power levels and
\* the creator of the stored room unchanged; the creator's level is 100 in
\* every room state, no other user has a level above 0, and a creator
\* outside an invite-only room passes the join-rule check.
C37_PowerAndCreatorFramed ==
  [][\A t \in Tasks :
       LET u == tasks'[t].user
           r == tasks'[t].room
       IN
       /\ ( /\ tasks'[t].op \in {"join_room", "leave_room", "send_message"}
            /\ r \in DOMAIN rooms
            /\ \/ join_room_update(t) \/ join_room_get(t, u, r)
               \/ leave_room_update(t) \/ leave_room_get(t, u, r)
               \/ \E n \in BodyLens : send_message(t, u, r, n) )
          => /\ r \in DOMAIN rooms'
             /\ rooms'[r].power_levels = rooms[r].power_levels
             /\ rooms'[r].creator = rooms[r].creator
       /\ \A s \in HeldRoomStates :
            /\ get_user_power_level(s, s.creator) = 100
            /\ \A o \in Users \ {s.creator} : get_user_power_level(s, o) = 0
            /\ ( s.join_rules = Some("invite") /\ ~is_member(s, s.creator) )
               => check_join_rules(s, s.creator) = "ok"
    ]_vars

\* C39: the views of the store agree in every reachable state: for every
\* room id r, room_exists(r) exactly when get_room(r) returns a room exactly
\* when r occurs in list_rooms(); list_rooms() has no id twice; and the room
\* get_room(r) returns has room_id r.
C39_StoreViewsAgree ==
  /\ store_list_rooms(rooms) # {}
  /\ \A r \in RoomIds :
       /\ store_room_exists(rooms, r) <=> (store_get_room(rooms, r) # None)
       /\ \A ids \in store_list_rooms(rooms) :
            /\ store_room_exists(rooms, r) <=> (\E i \in DOMAIN ids : ids[i] = r)
            /\ Cardinality({i \in DOMAIN ids : ids[i] = r}) <= 1
       /\ store_get_room(rooms, r) # None
          => store_get_room(rooms, r)[1].room_id = r

\* C39 witness: a delete_room removed one of two stored rooms, so one id is
\* in every view and the other in none.
C39_Witness ==
  \E t \in Tasks, b \in RoomIds :
    /\ ReturnedOk(t, "delete_room")
    /\ b # tasks[t].room
    /\ ~store_room_exists(rooms, tasks[t].room)
    /\ store_room_exists(rooms, b)
    /\ store_list_rooms(rooms) = {<<b>>}

(***************************************************************************)
(* Properties of the reading handlers, checked under SpecRead              *)
(***************************************************************************)
\* C38: send_message, get_messages, get_room_summary and list_rooms are
\* read-only: every step of theirs, whether the call succeeds or fails,
\* leaves the contents of the store as they were; that is, a step that
\* changes the store is no step of theirs.
C38_ReadOnly ==
  [][\A t \in Tasks :
       LET u == tasks'[t].user
           r == tasks'[t].room
       IN
       rooms' # rooms
       =>
       ~( /\ OthersKeep(t)
          /\ \/ /\ tasks'[t].op = "send_message"
                /\ \E n \in BodyLens : send_message(t, u, r, n)
             \/ /\ tasks'[t].op = "get_messages"
                /\ get_messages(t, u, r)
             \/ /\ tasks'[t].op = "get_room_summary"
                /\ get_room_summary(t, u, r)
             \/ /\ tasks'[t].op = "list_rooms"
                /\ list_rooms_begin(t, u) \/ list_rooms_get(t) )
    ]_vars

\* C38 witness: over a store of two rooms a send_message was accepted and a
\* list_rooms returned both ids, and both rooms are stored as the message's
\* sender found them.
C38_Witness ==
  \E t1 \in Tasks, t2 \in Tasks :
    /\ ReturnedOk(t1, "send_message")
    /\ ReturnedOk(t2, "list_rooms")
    /\ Len(tasks[t2].resp[1]) = 2
    /\ DOMAIN rooms = RoomIds
    /\ rooms[tasks[t1].room] = tasks[t1].snap[1]

(***************************************************************************)
(* Properties of the resolver, checked under SpecResolver                  *)
(***************************************************************************)
Orderings(s) ==
  {[i \in 1..Len(s) |-> s[p[i]]] : p \in Permutations(1..Len(s))}

\* C2: state resolution is order-independent: for every set of competing
\* events, every ordering of it passed to resolve_state_conflicts gives the
\* same winner (the first event of the result), also when candidates have
\* identical origin timestamps.
C2_OrderIndependent ==
  (resolved # None /\ input # <<>>) =>
    \A o \in Orderings(input) :
      resolve_state_conflicts(<<>>, o).events[1] = resolved[1][1]

SenderPower(e) == get_user_power_level(rstate, e.sender)

\* a comes before b: higher sender power, then earlier origin timestamp, then
\* smaller event id.
Precedes(a, b) ==
  \/ SenderPower(a) > SenderPower(b)
  \/ /\ SenderPower(a) = SenderPower(b)
     /\ a.origin_server_ts < b.origin_server_ts
  \/ /\ SenderPower(a) = SenderPower(b)
     /\ a.origin_server_ts = b.origin_server_ts
     /\ EventIdRank(a.event_id) < EventIdRank(b.event_id)

\* C3: resolve_state_conflicts orders the candidates by sender power level
\* descending, then origin timestamp ascending, then event id; the winner is
\* the first event in that order.
C3_PowerThenTimeThenId ==
  resolved # None =>
    \A i \in 1..Len(resolved[1]), j \in 1..Len(resolved[1]) :
      i < j => Precedes(resolved[1][i], resolved[1][j])

IsCandidateA(e) == SenderPower(e) = 50 /\ e.origin_server_ts = 100

IsCandidateB(e) == SenderPower(e) = 80 /\ e.origin_server_ts = 50

\* C4: of the two competing name changes A (sender power 50, timestamp 100)
\* and B (sender power 80, timestamp 50), resolve_state_conflicts selects B
\* for both input orders [A,B] and [B,A].
C4_SelectsB ==
  (resolved # None /\ Len(input) = 2) =>
    \A a \in 1..2, b \in 1..2 :
      (IsCandidateA(input[a]) /\ IsCandidateB(input[b]))
      => resolved[1][1] = input[b]

\* C4 witness: the resolver was given [A,B] and returned B first.
C4_Witness ==
  /\ resolved # None
  /\ Len(input) = 2
  /\ IsCandidateA(input[1]) /\ IsCandidateB(input[2])
  /\ resolved[1] = <<input[2], input[1]>>

\* C25: the resolver discards every candidate that fails authorization: the
\* winner resolve_state_conflicts returns passes validate_event_auth against
\* the room state.
C25_WinnerIsAuthorized ==
  (resolved # None /\ input # <<>>) =>
    validate_event_auth(resolved[1][1], <<>>, rstate) = "ok"

\* C40: resolve_state_conflicts neither drops nor duplicates nor adds
\* events: its result is a permutation of the input in non-decreasing order
\* of origin timestamp, events of equal timestamp keeping their input
\* order, and the call succeeds; an empty input gives an empty result.
C40_StablePermutation ==
  resolved # None =>
    /\ last.err = "ok"
    /\ Len(resolved[1]) = Len(input)
    /\ input = <<>> => resolved[1] = <<>>
    /\ \E p \in Permutations(1..Len(input)) :
         /\ \A i \in 1..Len(input) : resolved[1][i] = input[p[i]]
         /\ \A i \in 1..Len(input), j \in 1..Len(input) :
              i < j =>
                /\ input[p[i]].origin_server_ts <= input[p[j]].origin_server_ts
                /\ input[p[i]].origin_server_ts = input[p[j]].origin_server_ts
                   => p[i] < p[j]

\* C40 witness: two candidates of equal timestamp followed by an earlier
\* one were resolved: the earlier one comes first, the two keep their order.
C40_Witness ==
  /\ resolved # None
  /\ Len(input) = 3
  /\ input[1].origin_server_ts = input[2].origin_server_ts
  /\ input[3].origin_server_ts < input[1].origin_server_ts
  /\ resolved[1] = <<input[3], input[1], input[2]>>

(***************************************************************************)
(* Properties of the authorization checks, checked under SpecAuth          *)
(***************************************************************************)
\* C8: a power-levels state event sent by a user whose power level is 50 that
\* assigns another user the level 60 is rejected by authorization and is not
\* accepted into the room state.
C8_NoEscalation ==
  ( /\ last.op \in {"add_state_event", "validate_event_auth"}
    /\ input[1].event_type = "m.room.power_levels"
    /\ get_user_power_level(rstate, input[1].sender) = 50
    /\ \E v \in DOMAIN input[1].content.users[1] :
         v # input[1].sender /\ input[1].content.users[1][v] = 60 )
  => /\ last.err # "ok"
     /\ ~ ( /\ <<"m.room.power_levels", "">> \in DOMAIN rstate.state_events
            /\ rstate.state_events[<<"m.room.power_levels", "">>] = input[1] )

AdministrativeTypes == {"m.room.power_levels", "m.room.join_rules"}

\* The level a state event of a type requires: the override of the type in
\* power_levels.events, else state_default for the administrative types, else
\* events_default.
RequiredLevel(state, event_type) ==
  IF event_type \in DOMAIN state.power_levels.events[1]
  THEN state.power_levels.events[1][event_type]
  ELSE IF event_type \in AdministrativeTypes
  THEN state.power_levels.state_default[1]
  ELSE state.power_levels.events_default[1]

\* C28: add_state_event accepts a non-membership state event exactly when the
\* sender's power level is at least the level the event type requires; with
\* the default levels a sender at power 0 may set an ordinary state event.
C28_RequiredLevelByType ==
  ( /\ last.op = "add_state_event"
    /\ is_state_event(input[1])
    /\ input[1].event_type # "m.room.member" )
  => ( (last.err = "ok")
       = (get_user_power_level(rstate, input[1].sender)
            >= RequiredLevel(rstate, input[1].event_type)) )

SlotOf(event) == <<event.event_type, event.state_key[1]>>

\* The room state after add_state_event of a, then of b.
AddedInOrder(state, a, b) ==
  add_state_event(add_state_event(state, a).state, b)

\* C29: the occupant of a (type, state key) slot does not depend on arrival
\* order: when add_state_event accepts b, and an event a for the same slot is
\* accepted before b as well as after it, the occupant after a then b is the
\* occupant after b then a.
C29_OccupantOrderIndependent ==
  [][\A a \in AuthEvents, b \in AuthEvents :
       ( /\ add_state_event_call(b)
         /\ last'.err = "ok"
         /\ is_state_event(a)
         /\ a # b
         /\ SlotOf(a) = SlotOf(b)
         /\ AddedInOrder(rstate, a, b).err = "ok"
         /\ add_state_event(rstate', a).err = "ok" )
       => AddedInOrder(rstate, a, b).state.state_events[SlotOf(b)]
          = add_state_event(rstate', a).state.state_events[SlotOf(b)]
    ]_vars

(***************************************************************************)
(* Properties of membership events, checked under SpecMember              *)
(***************************************************************************)
MembershipOf(state, user_id) ==
  IF user_id \in DOMAIN state.members THEN state.members[user_id] ELSE "none"

Target(event) == event.state_key[1]

\* The room state a logged call left behind.
After(i) == IF i < Len(input) THEN input[i + 1].before ELSE rstate

\* The rows of the membership transition table: from the target's membership,
\* by the membership the event asks for, under the guard of the row.
InTable(state, event) ==
  LET from == MembershipOf(state, Target(event))
      to == event.content.membership
      self == event.sender = Target(event)
      power == get_user_power_level(state, event.sender)
  IN \/ /\ from = "none" /\ to = "join"
        /\ \/ state.join_rules = Some("public")
           \/ self /\ power >= 100
     \/ from = "none" /\ to = "invite" /\ power >= state.power_levels.invite[1]
     \/ from = "invite" /\ to = "join" /\ self
     \/ from = "invite" /\ to = "leave"
     \/ /\ from = "join" /\ to = "leave"
        /\ self \/ power >= state.power_levels.kick[1]
     \/ /\ from = "join" /\ to = "ban"
        /\ power >= state.power_levels.ban[1]
        /\ power > get_user_power_level(state, Target(event))
     \/ from = "ban" /\ to = "leave" /\ power >= state.power_levels.ban[1]
     \/ /\ from = "none" /\ to = "knock"
        /\ state.join_rules \in {Some("knock"), Some("knock_restricted")}

\* C15: a membership transition that is no row of the transition table (a
\* member event processed, or the join that join_room requests) is rejected
\* and leaves the members map unchanged.
C15_OnlyTableTransitions ==
  \A i \in 1..Len(input) :
    ~InTable(input[i].before, input[i].arg)
    => /\ input[i].err # "ok"
       /\ After(i).members = input[i].before.members

\* C16: after a ban event of the table has been processed for a user, a
\* join_room by that user that follows it fails, whatever the join rule.
C16_BanUntilUnban ==
  \A i \in 1..(Len(input) - 1) :
    ( /\ input[i].op = "process_member_event"
      /\ input[i].arg.content.membership = "ban"
      /\ InTable(input[i].before, input[i].arg)
      /\ input[i + 1].op = "join_room"
      /\ input[i + 1].arg.sender = Target(input[i].arg) )
    => input[i + 1].err # "ok"

\* C17: after an invite event of the table for a user below level 100 has been
\* processed in a room whose join rule is "invite", the user's membership is
\* invite, and a join_room by that user that follows succeeds and makes the
\* user joined.
C17_InviteThenJoin ==
  \A i \in 1..Len(input) :
    LET u == Target(input[i].arg) IN
    ( /\ input[i].op = "process_member_event"
      /\ input[i].arg.content.membership = "invite"
      /\ InTable(input[i].before, input[i].arg)
      /\ input[i].before.join_rules = Some("invite")
      /\ get_user_power_level(input[i].before, u) < 100 )
    => /\ Invited(After(i), u)
       /\ ( /\ i < Len(input)
            /\ input[i + 1].op = "join_room"
            /\ input[i + 1].arg.sender = u )
          => /\ input[i + 1].err = "ok"
             /\ Joined(After(i + 1), u)

\* C26: a membership event changes the membership of the user its state key
\* names and of no other user; the sender's own membership is unchanged when
\* sender and state key differ.
C26_OnlyTargetChanges ==
  \A i \in 1..Len(input) :
    input[i].op = "process_member_event"
    => \A u \in Users \ {Target(input[i].arg)} :
         MembershipOf(After(i), u) = MembershipOf(input[i].before, u)

\* C27: a ban event whose sender is below the room's ban level, or not
\* strictly above the target's power level, is rejected and leaves the
\* target's membership unchanged.
C27_BanNeedsPower ==
  \A i \in 1..Len(input) :
    LET st == input[i].before
        ev == input[i].arg
        power == get_user_power_level(st, ev.sender)
    IN ( /\ input[i].op = "process_member_event"
         /\ ev.content.membership = "ban"
         /\ ~( /\ power >= st.power_levels.ban[1]
               /\ power > get_user_power_level(st, Target(ev)) ) )
       => /\ input[i].err # "ok"
          /\ MembershipOf(After(i), Target(ev)) = MembershipOf(st, Target(ev))

(***************************************************************************)
(* Properties of the store's locking, checked under SpecLock              *)
(***************************************************************************)
InsideWrite(t, room_id) ==
  Inside(tasks, t) /\ tasks[t].op \in WriteOps /\ tasks[t].room = room_id

\* C19: locking is per room id: while a task is inside a write of room A, a
\* task waiting for the lock to read or write a different room B is granted
\* it.
C19_PerRoomLocking ==
  \A t1 \in Tasks, t2 \in Tasks :
    (InsideWrite(t1, tasks[t1].room) /\ Waiting(t2) /\ tasks[t2].room # tasks[t1].room)
    => ENABLED lock_acquire(t2)

\* C20: two tasks are inside store operations on the same room id only when
\* both are reads, and a get_room returns None or a room state, of the id asked
\* for, that a completed create_room or update_room stored.
C20_OneWriterPerRoom ==
  /\ \A t1 \in Tasks, t2 \in Tasks :
       ( /\ t1 # t2
         /\ Inside(tasks, t1) /\ Inside(tasks, t2)
         /\ tasks[t1].room = tasks[t2].room )
       => tasks[t1].op = "get_room" /\ tasks[t2].op = "get_room"
  /\ \A t \in Tasks :
       (ReturnedOk(t, "get_room") /\ tasks[t].resp # None)
       => /\ tasks[t].resp[1].room_id = tasks[t].room
          /\ \E i \in 1..Len(input) : input[i] = tasks[t].resp[1]

\* C20 witness: two reads of the same stored room are inside get_room at the
\* same time.
C20_Witness ==
  \E t1 \in Tasks, t2 \in Tasks :
    /\ t1 # t2
    /\ Inside(tasks, t1) /\ Inside(tasks, t2)
    /\ tasks[t1].op = "get_room" /\ tasks[t2].op = "get_room"
    /\ tasks[t1].room = tasks[t2].room
    /\ tasks[t1].room \in DOMAIN rooms

(***************************************************************************)
(* Properties of room creation, checked under SpecCreate                  *)
(***************************************************************************)
Created == last.op = "create_room" /\ last.err = "ok"

\* C23: the preset of the creation config determines the join rule of the
\* created room: public_chat gives "public"; private_chat,
\* trusted_private_chat and no preset give "invite".
C23_PresetJoinRule ==
  Created =>
    /\ rooms[rstate.room_id] = rstate
    /\ input[1].config.preset = Some("public_chat")
       => rstate.join_rules = Some("public")
    /\ input[1].config.preset \in
         {None, Some("private_chat"), Some("trusted_private_chat")}
       => rstate.join_rules = Some("invite")

\* C23 witness: a room was created with the preset trusted_private_chat and
\* is stored with the join rule "invite".
C23_Witness ==
  /\ Created
  /\ input[1].config.preset = Some("trusted_private_chat")
  /\ rstate.room_id \in DOMAIN rooms
  /\ rooms[rstate.room_id].join_rules = Some("invite")

\* C24: a newly created room state has users_default 0, state_default 50,
\* ban, kick, redact and invite levels 50, and its creator is the only user
\* with a power-level entry.
C24_DefaultLevels ==
  Created =>
    LET pl == rooms[rstate.room_id].power_levels IN
    /\ pl.users_default = Some(0)
    /\ pl.state_default = Some(50)
    /\ pl.ban = Some(50) /\ pl.kick = Some(50)
    /\ pl.redact = Some(50) /\ pl.invite = Some(50)
    /\ pl.users # None
    /\ DOMAIN pl.users[1] = {input[1].creator}

\* C24 witness: @bob created a room with initial state, a name and a topic,
\* and the stored room has the invite level 50 and @bob as its only entry.
C24_Witness ==
  /\ Created
  /\ input[1].creator = "@bob:example.org"
  /\ input[1].config.initial_state # <<>>
  /\ input[1].config.name # None /\ input[1].config.topic # None
  /\ rooms[rstate.room_id].power_levels.invite = Some(50)
  /\ DOMAIN rooms[rstate.room_id].power_levels.users[1] = {"@bob:example.org"}

Slot(state, event_type) == <<event_type, "">>

Occupied(state, event_type) == Slot(state, event_type) \in DOMAIN state.state_events

SlotContent(state, event_type) == state.state_events[Slot(state, event_type)].content

\* C30: in every stored room state each of name, topic, join_rules and
\* history_visibility is set exactly when its state event occupies its slot of
\* state_events, and then carries the value of that event.
C30_FieldsReadThrough ==
  \A r \in DOMAIN rooms :
    LET st == rooms[r] IN
    /\ (st.name # None) = Occupied(st, "m.room.name")
    /\ Occupied(st, "m.room.name")
       => st.name = Some(SlotContent(st, "m.room.name").name)
    /\ (st.topic # None) = Occupied(st, "m.room.topic")
    /\ Occupied(st, "m.room.topic")
       => st.topic = Some(SlotContent(st, "m.room.topic").topic)
    /\ (st.join_rules # None) = Occupied(st, "m.room.join_rules")
    /\ Occupied(st, "m.room.join_rules")
       => st.join_rules = Some(SlotContent(st, "m.room.join_rules").join_rule)
    /\ (st.history_visibility # None) = Occupied(st, "m.room.history_visibility")
    /\ Occupied(st, "m.room.history_visibility")
       => st.history_visibility =
            Some(SlotContent(st, "m.room.history_visibility").history_visibility)

====
